---- MODULE Spec2Model ----
(***************************************************************************)
(* reql_cli: the output-rendering engine of reqlcli/__init__.py.           *)
(*                                                                         *)
(* One Output instance is made by Output.make and then used by the         *)
(* execution driver ReQLExecution.__call__ for any number of queries.  The   *)
(* model follows the code statement by statement: each action is one step  *)
(* of a handler (a loop header, a loop body, a finally block), sequenced   *)
(* by pc.  The streams out and err hold, per driver call, the strings the  *)
(* print calls wrote, one entry per print call.                            *)
(***************************************************************************)
EXTENDS Integers, Sequences, FiniteSets, TLC

(***************************************************************************)
(* Bounds of the model.                                                    *)
(***************************************************************************)
MaxLen == 4
MaxPageSize == 3
MaxMsgLen == 2
MaxDepth == 3

VARIABLES
    pc,           \* position of the control flow
    format_mode,  \* Output.make: the format argument
    is_atty,      \* Output.make: os.isatty(sys.stdout.fileno())
    strategy,     \* class of the Output instance that make returned
    style,        \* ColorOutput.style
    pagesize,     \* ColorOutput.pagesize
    compact,      \* self.compact as the instance sees it
    results,      \* ReQLExecution.results
    pos,          \* how many elements the running iterator has yielded
    doc,          \* the loop variable doc
    i,            \* ColorOutput.__call__: i
    first,        \* ArrayOutput.__call__: first
    out,          \* strings written to output_stream during this call
    flushed,      \* how many entries of out an explicit flush() has covered
    err,          \* strings written to error_stream during this call
    term,         \* terminal settings of the input stream
    old_settings, \* Output.getch: old_settings
    ch,           \* Output.getch: ch / ColorOutput.__call__: char
    getches,      \* number of getch invocations during this call
    exc,          \* the exception in flight ("none" when there is none)
    json_encode_basestring, \* the process-global json.encoder.encode_basestring
    frames,       \* running _wrapper invocations of binary_patch, innermost last
    last          \* how the last finished _wrapper ended (-1: none has finished)

vars == <<pc, format_mode, is_atty, strategy, style, pagesize, compact, results,
          pos, doc, i, first, out, flushed, err, term, old_settings, ch,
          getches, exc, json_encode_basestring, frames, last>>

config == <<format_mode, is_atty, strategy, style, pagesize>>
tty == <<term, old_settings, ch, getches>>
loop == <<pos, doc, i, first>>
program == <<pc, config, compact, results, loop, out, flushed, err, tty, exc>>
patch == <<json_encode_basestring, frames, last>>

(***************************************************************************)
(* Documents.  A value is a record: its Python type, for a list or cursor  *)
(* the types of its elements, for a dict whether it has the key            *)
(* 'first_error', and for a string (or a first_error value) its            *)
(* characters.                                                             *)
(***************************************************************************)
Value(t, es, fe, m) == [type |-> t, elems |-> es, fe |-> fe, msg |-> m]
Scalar(t) == Value(t, <<>>, FALSE, <<>>)
Str(m) == Value("str", <<>>, FALSE, m)
Dict == Value("dict", <<>>, FALSE, <<>>)
ErrDict(m) == Value("dict", <<>>, TRUE, m)
\* a mapping {"t": x} with x a value of type t
DictOf(t) == Value("dict", <<t>>, FALSE, <<>>)
List(es) == Value("list", es, FALSE, <<>>)
Cursor(es) == Value("cursor", es, FALSE, <<>>)
NoDoc == Scalar("none")

\* the value of an element of type t of a list or of a cursor
ElemDoc(t) == IF t = "str" THEN Str(<<"s">>) ELSE IF t = "dict" THEN Dict ELSE Scalar(t)

Chars == {"a", "\t"}
ElemTypes == {"int", "dict", "object"}
ScalarTypes == {"int", "null", "datetime", "object"}

SeqsUpTo(S, n) == UNION {[1..k -> S] : k \in 0..n}
Msgs == SeqsUpTo(Chars, MaxMsgLen)

FieldTypes == {"datetime", "object"}

Results ==
    {Scalar(t) : t \in ScalarTypes} \cup {Str(m) : m \in Msgs}
    \cup {Dict} \cup {ErrDict(m) : m \in Msgs} \cup {DictOf(t) : t \in FieldTypes}
    \cup {List(es) : es \in SeqsUpTo(ElemTypes, MaxLen)}
    \cup {Cursor(es) : es \in SeqsUpTo(ElemTypes, MaxLen)}

(***************************************************************************)
(* Text helpers.                                                           *)
(***************************************************************************)
RECURSIVE Concat(_)
Concat(ss) == IF ss = <<>> THEN "" ELSE Head(ss) \o Concat(Tail(ss))

RECURSIVE Join(_, _)
Join(ss, sep) ==
    IF ss = <<>> THEN ""
    ELSE IF Len(ss) = 1 THEN ss[1]
    ELSE ss[1] \o sep \o Join(Tail(ss), sep)

\* str.replace('\t', '  ') on a string given by its characters
ReplaceTabs(m) == Concat([k \in 1..Len(m) |-> IF m[k] = "\t" THEN "  " ELSE m[k]])

\* json.encoder.encode_basestring on a plain string: escapes and quotes
encode_basestring(m) ==
    "\"" \o Concat([k \in 1..Len(m) |-> IF m[k] = "\t" THEN "\\t" ELSE m[k]]) \o "\""

Indent(n) == Concat([k \in 1..n |-> "    "])

(***************************************************************************)
(* json.dumps as Output.format parameterises it.  c is self.compact, n the *)
(* nesting depth.  With c the encoder class is json.JSONEncoder, whose     *)
(* default() raises TypeError; without c it is DateJSONEncoder, whose      *)
(* default() returns the ISO text of a datetime and None (encoded as null) *)
(* for anything else.                                                      *)
(***************************************************************************)
Encodable(v, c) ==
    /\ v.type \in {"datetime", "object", "cursor"} => ~c
    /\ \A k \in 1..Len(v.elems) : v.elems[k] \in {"datetime", "object"} => ~c

DateJSONEncoder_default(t) == IF t = "datetime" THEN "\"2015-01-01T00:00:00\"" ELSE "null"

ItemSep(c) == IF c THEN "," ELSE ", "
KeySep(c) == IF c THEN ":" ELSE ": "
Newline(c, n) == IF c THEN "" ELSE "\n" \o Indent(n)

DictText(v, c, n) ==
    IF v.elems # <<>>
    THEN "{" \o Newline(c, n + 1) \o "\"t\"" \o KeySep(c)
             \o DateJSONEncoder_default(v.elems[1]) \o Newline(c, n) \o "}"
    ELSE IF v.fe
    THEN "{" \o Newline(c, n + 1) \o "\"first_error\"" \o KeySep(c)
             \o encode_basestring(v.msg) \o Newline(c, n) \o "}"
    ELSE IF c
    THEN "{\"b\":1,\"a\":2}"
    ELSE "{" \o Newline(c, n + 1) \o "\"a\"" \o KeySep(c) \o "2" \o ItemSep(c)
             \o Newline(c, n + 1) \o "\"b\"" \o KeySep(c) \o "1" \o Newline(c, n) \o "}"

ScalarText(v, c, n) ==
    CASE v.type = "int" -> "1"
      [] v.type = "null" -> "null"
      [] v.type = "str" -> encode_basestring(v.msg)
      [] v.type = "dict" -> DictText(v, c, n)
      [] OTHER -> DateJSONEncoder_default(v.type)

json_dumps(v, c) ==
    IF v.type = "list"
    THEN IF v.elems = <<>> THEN "[]"
         ELSE "[" \o Newline(c, 1)
                  \o Join([k \in 1..Len(v.elems) |-> ScalarText(ElemDoc(v.elems[k]), c, 1)],
                          ItemSep(c) \o Newline(c, 1))
                  \o Newline(c, 0) \o "]"
    ELSE ScalarText(v, c, 0)

\* Output.format: the text, or a raised TypeError
format(v, c) ==
    IF Encodable(v, c)
    THEN [raised |-> "none", text |-> json_dumps(v, c)]
    ELSE [raised |-> "TypeError", text |-> ""]

\* pygments.highlight(code, lexer, formatter): the code wrapped in the style's markup
highlight(code, lexer, sty) == "<" \o lexer \o ":" \o sty \o ">" \o code \o "</>"

\* ColorOutput.format: Output.format, highlighted
ColorFormat(v, c, sty) ==
    LET f == format(v, c)
    IN  IF f.raised = "none"
        THEN [raised |-> "none", text |-> highlight(f.text, "json", sty)]
        ELSE f

\* self.format(v) as the instance's class resolves it, with self.compact = c
SelfFormat(v, c) ==
    IF strategy = "Color" THEN ColorFormat(v, c, style) ELSE format(v, c)

Query == "r.table('t')"

\* python_format: ColorOutput colorizes, the other classes return obj
python_format(obj) ==
    IF strategy = "Color" THEN highlight(obj, "python", style) ELSE obj

\* print(*args, sep=sep, end=end, file=stream): one write of the joined text
print(stream, args, sep, end) == Append(stream, Join(args, sep) \o end)

\* ColorOutput.primitive_array
Primitives == {"int", "float", "bool", "str"}
primitive_array(v) ==
    /\ v.type = "list"
    /\ \A k \in 1..Len(v.elems) : v.elems[k] \in Primitives

(***************************************************************************)
(* Iteration ("for doc in docs").  A list and a cursor yield their         *)
(* elements, a string its characters; iter() of anything else raises       *)
(* TypeError.  Pulling from a cursor can raise a database fault or be      *)
(* interrupted.                                                            *)
(***************************************************************************)
Iterable(v) == v.type \in {"list", "cursor", "str", "dict"}
IterLen(v) == IF v.type = "str" THEN Len(v.msg) ELSE Len(v.elems)
IterElem(v, k) == IF v.type = "str" THEN Str(<<v.msg[k]>>) ELSE ElemDoc(v.elems[k])
CursorFaults == {"RqlError", "KeyboardInterrupt"}

\* the loop header: the next element, the end of the loop, or a fault
ForNext(body, done, fail) ==
    \/ /\ pos < IterLen(results)
       /\ doc' = IterElem(results, pos + 1)
       /\ pos' = pos + 1
       /\ pc' = body
       /\ exc' = exc
    \/ /\ pos = IterLen(results)
       /\ pc' = done
       /\ UNCHANGED <<doc, pos, exc>>
    \/ /\ results.type = "cursor"
       /\ \E e \in CursorFaults : exc' = e
       /\ pc' = fail
       /\ UNCHANGED <<doc, pos>>

(***************************************************************************)
(* Output.make                                                             *)
(***************************************************************************)
Formats == {"color", "auto", "newline", "array", "bogus"}
STYLE_MAP == {"monokai", "vim"}
Styles == {"vim", "nope"}
PageSizes == 1..MaxPageSize
TermModes == {"cooked", "cbreak"}

\* mutant: "or" binding tighter than "and" in the first test
makeOrFirst(fmt, atty) ==
    IF (fmt = "color" \/ fmt = "auto") /\ atty THEN "Color"
    ELSE IF fmt = "newline" \/ (fmt = "auto" /\ ~atty) THEN "Newline"
    ELSE IF fmt = "array" THEN "Array"
    ELSE "raise"

make(fmt, atty) ==
    IF fmt = "color" \/ (fmt = "auto" /\ atty) THEN "Color"
    ELSE IF fmt = "newline" \/ (fmt = "auto" /\ ~atty) THEN "Newline"
    ELSE IF fmt = "array" THEN "Array"
    ELSE "raise"

\* mutant: NewlineOutput without its compact = True
ClassCompactArrayOnly(cls) == cls = "Array"

\* the class attribute compact of each Output class
ClassCompact(cls) == cls # "Color"

\* ColorOutput.__init__: the style, or the default for an unknown one
ColorStyle(sty) == IF sty \in STYLE_MAP THEN sty ELSE "monokai"

Init ==
    /\ pc = "start"
    /\ format_mode = "unset"
    /\ is_atty = FALSE
    /\ strategy = "none"
    /\ style = "none"
    /\ pagesize = 1
    /\ compact = FALSE
    /\ results = NoDoc
    /\ pos = 0
    /\ doc = NoDoc
    /\ i = 0
    /\ first = FALSE
    /\ out = <<>>
    /\ flushed = 0
    /\ err = <<>>
    /\ term \in TermModes
    /\ old_settings = "unset"
    /\ ch = ""
    /\ getches = 0
    /\ exc = "none"
    /\ json_encode_basestring = "real_encoder"
    /\ frames = <<>>
    /\ last = -1

Make ==
    /\ pc = "start"
    /\ \E fmt \in Formats, atty \in BOOLEAN, sty \in Styles, ps \in PageSizes :
          /\ format_mode' = fmt
          /\ is_atty' = atty
          /\ strategy' = IF make(fmt, atty) = "raise" THEN "none" ELSE make(fmt, atty)
          /\ style' = IF make(fmt, atty) = "Color" THEN ColorStyle(sty) ELSE "none"
          /\ pagesize' = IF make(fmt, atty) = "Color" THEN ps ELSE 1
          /\ compact' = ClassCompact(make(fmt, atty))
          /\ exc' = IF make(fmt, atty) = "raise" THEN "Exception" ELSE "none"
          /\ pc' = IF make(fmt, atty) = "raise" THEN "exit" ELSE "ready"
    /\ UNCHANGED <<patch, results, loop, out, flushed, err, tty>>

(***************************************************************************)
(* ReQLExecution.__call__: the run, then the strategy, then the handlers.  *)
(***************************************************************************)
RunFaults == {"RqlError", "NameError", "SyntaxError", "AttributeError", "KeyboardInterrupt"}

\* __call__ is entered: the streams are observed per call, the locals are fresh
Call ==
    /\ pc \in {"ready", "returned"}
    /\ out' = <<>>
    /\ flushed' = 0
    /\ err' = <<>>
    /\ getches' = 0
    /\ pos' = 0
    /\ i' = 0
    /\ first' = FALSE
    /\ doc' = NoDoc
    /\ results' = NoDoc
    /\ old_settings' = "unset"
    /\ ch' = ""
    /\ exc' = "none"
    /\ pc' = "run"
    /\ UNCHANGED <<config, patch, compact, term>>

\* the class attribute time_format of each Output class
time_format(cls) == IF cls = "Color" THEN "native" ELSE "raw"

\* whether v holds a datetime object, which the driver hands out only with
\* time_format='native' (with 'raw' a time is a plain mapping)
HasDatetime(v) == v.type = "datetime" \/ \E k \in 1..Len(v.elems) : v.elems[k] = "datetime"

RunResults(cls) == {r \in Results : HasDatetime(r) => time_format(cls) = "native"}

\* self.results = self.query.run(...): a result, or a fault of the compile or the run
Run ==
    /\ pc = "run"
    /\ \/ \E r \in RunResults(strategy) : results' = r /\ pc' = "render" /\ exc' = "none"
       \/ \E e \in RunFaults : results' = NoDoc /\ pc' = "except" /\ exc' = e
    /\ UNCHANGED <<config, patch, compact, loop, out, flushed, err, tty>>

ErrorText(e) ==
    CASE e = "RqlError" -> <<"RqlError: fault">>
      [] e = "NameError" -> <<"name 'x' is not defined">>
      [] e = "AttributeError" -> <<"no attribute 'x'">>
      [] e = "SyntaxError" -> <<"\n", python_format("    r.table(\n") \o "    ^\n">>
      [] OTHER -> <<>>

\* mutant: the except clause for r.RqlError is missing
CaughtNoRqlError == {"NameError", "SyntaxError", "AttributeError", "KeyboardInterrupt"}

Caught == {"RqlError", "NameError", "SyntaxError", "AttributeError", "KeyboardInterrupt"}

\* the except clauses of __call__; any other exception leaves the driver
Except ==
    /\ pc = "except"
    /\ IF exc \in Caught
       THEN /\ err' = IF exc = "KeyboardInterrupt" THEN err
                      ELSE print(err, ErrorText(exc), " ", "\n")
            /\ exc' = "none"
            /\ pc' = "returned"
       ELSE /\ pc' = "exit"
            /\ UNCHANGED <<err, exc>>
    /\ UNCHANGED <<config, patch, compact, results, loop, out, flushed, tty>>

(***************************************************************************)
(* Output.error, Output.fprint                                             *)
(***************************************************************************)
\* Output.error(value): print(value, file=self.error_stream)
error(stream, args) == print(stream, args, " ", "\n")

\* Output.fprint(value, sep=sep, end=end): the builtin print of self.format(value)
\* on output_stream (not self.print: no flush follows, in any class)
fprint(stream, v, c, end) ==
    LET f == SelfFormat(v, c)
    IN  IF f.raised = "none"
        THEN [raised |-> "none", stream |-> print(stream, <<f.text>>, " ", end)]
        ELSE [raised |-> f.raised, stream |-> stream]

(***************************************************************************)
(* ColorOutput.__call__                                                    *)
(***************************************************************************)
DirectTypes == {"dict", "int", "float", "bool", "str"}

\* mutant: lists of primitives are not printed directly
ColorDirectNoArrays(v) == v.type \in DirectTypes

\* the condition of "Print small things directly"
ColorDirect(v) == v.type \in DirectTypes \/ primitive_array(v)

Ran(stream) == print(stream, <<"Ran:\n", python_format(Query)>>, " ", "\n")

\* the statements before the loop
ColorCall ==
    /\ pc = "render"
    /\ strategy = "Color"
    /\ IF results.type = "dict" /\ results.fe
       THEN /\ err' = error(err, <<ReplaceTabs(results.msg)>>)
            /\ pc' = "returned"
            /\ UNCHANGED <<compact, out, exc>>
       ELSE LET c == IF primitive_array(results) THEN TRUE ELSE compact
                p == fprint(out, results, c, "\n")
            IN  /\ compact' = c
                /\ err' = err
                /\ IF ColorDirect(results)
                   THEN IF p.raised = "none"
                        THEN out' = Ran(p.stream) /\ pc' = "returned" /\ exc' = exc
                        ELSE out' = out /\ pc' = "except" /\ exc' = p.raised
                   ELSE IF Iterable(results)
                        THEN out' = out /\ pc' = "color_for" /\ exc' = exc
                        ELSE out' = out /\ pc' = "except" /\ exc' = "TypeError"
    /\ UNCHANGED <<config, patch, results, loop, flushed, tty>>

\* for i, doc in enumerate(docs, start=1)
ColorFor ==
    /\ pc = "color_for"
    /\ ForNext("color_body", "color_total", "except")
    /\ i' = IF pc' = "color_body" THEN i + 1 ELSE i
    /\ UNCHANGED <<config, patch, compact, results, first, out, flushed, err, tty>>

Prompt(k) == "[" \o ToString(k) \o "] Hit any key to continue (or q to quit)..."

\* mutant: the pause comes one document early
PageBreakEarly(k, ps) == (k + 1) % ps = 0

\* whether the loop pauses after document k
PageBreak(k, ps) == k % ps = 0

\* the loop body up to the call of getch
ColorBody ==
    /\ pc = "color_body"
    /\ LET p == fprint(out, doc, compact, "\n")
       IN  IF p.raised # "none"
           THEN out' = out /\ pc' = "except" /\ exc' = p.raised
           ELSE IF PageBreak(i, pagesize)
           THEN /\ out' = print(print(p.stream, <<"Running:", python_format(Query)>>, " ", "\n"),
                                <<Prompt(i)>>, " ", "\n")
                /\ pc' = "getch"
                /\ exc' = exc
           ELSE out' = p.stream /\ pc' = "color_for" /\ exc' = exc
    /\ UNCHANGED <<config, patch, compact, results, loop, flushed, err, tty>>

\* mutant: the comparison without lower()
IsQuitCaseSensitive(c) == c = "q"

\* char.lower() == 'q'
IsQuit(c) == c \in {"q", "Q"}

\* the test of the keystroke getch returned
ColorKey ==
    /\ pc = "color_key"
    /\ IF IsQuit(ch)
       THEN pc' = "except" /\ exc' = "SystemExit"
       ELSE pc' = "color_for" /\ exc' = exc
    /\ UNCHANGED <<config, patch, compact, results, loop, out, flushed, err, tty>>

\* mutant: the count starts at 0 (enumerate without start=1)
TotalDocsFromZero(stream, n) ==
    print(stream, <<"Total docs:", ToString(IF n = 0 THEN 0 ELSE n - 1)>>, " ", "\n")

\* self.print('Total docs:', i)
TotalDocs(stream, n) == print(stream, <<"Total docs:", ToString(n)>>, " ", "\n")

\* the statements after the loop
ColorTotal ==
    /\ pc = "color_total"
    /\ out' = Ran(TotalDocs(out, i))
    /\ pc' = "returned"
    /\ UNCHANGED <<config, patch, compact, results, loop, flushed, err, tty, exc>>

(***************************************************************************)
(* Output.getch                                                            *)
(***************************************************************************)
Keys == {"q", "Q", "x", ""}
GetchPcs == {"getch_setraw", "getch_read", "getch_finally"}

\* fd = fileno(); old_settings = termios.tcgetattr(fd)
Getch ==
    /\ pc = "getch"
    /\ getches' = getches + 1
    /\ \/ old_settings' = term /\ pc' = "getch_setraw" /\ exc' = exc
       \/ old_settings' = old_settings /\ pc' = "except" /\ exc' = "termios.error"
    /\ UNCHANGED <<config, patch, compact, results, loop, out, flushed, err, term, ch>>

\* try: tty.setraw(fd); a fault may come before or after the mode changed
GetchSetraw ==
    /\ pc = "getch_setraw"
    /\ \/ term' = "raw" /\ pc' = "getch_read" /\ exc' = exc
       \/ term' \in {term, "raw"} /\ pc' = "getch_finally" /\ exc' \in {"termios.error", "KeyboardInterrupt"}
    /\ UNCHANGED <<config, patch, compact, results, loop, out, flushed, err, old_settings, ch, getches>>

\* ch = self.input_stream.read(1)
GetchRead ==
    /\ pc = "getch_read"
    /\ \/ ch' \in Keys /\ exc' = exc
       \/ ch' = ch /\ exc' \in {"IOError", "KeyboardInterrupt"}
    /\ pc' = "getch_finally"
    /\ UNCHANGED <<config, patch, compact, results, loop, out, flushed, err, term, old_settings, getches>>

\* mutant: the settings are not restored
NotRestored(cur, old) == cur

\* the settings the finally block sets
Restored(cur, old) == old

\* finally: termios.tcsetattr(fd, termios.TCSADRAIN, old_settings); return ch
GetchFinally ==
    /\ pc = "getch_finally"
    /\ term' = Restored(term, old_settings)
    /\ pc' = IF exc = "none" THEN "color_key" ELSE "except"
    /\ UNCHANGED <<config, patch, compact, results, loop, out, flushed, err, old_settings, ch, getches, exc>>

(***************************************************************************)
(* NewlineOutput.__call__                                                  *)
(***************************************************************************)
NewlineCall ==
    /\ pc = "render"
    /\ strategy = "Newline"
    /\ LET p == fprint(out, results, compact, "\n")
       IN  IF results.type = "dict"
           THEN IF p.raised = "none"
                THEN out' = p.stream /\ pc' = "returned" /\ exc' = exc
                ELSE out' = out /\ pc' = "except" /\ exc' = p.raised
           ELSE IF Iterable(results)
                THEN out' = out /\ pc' = "newline_for" /\ exc' = exc
                ELSE out' = out /\ pc' = "except" /\ exc' = "TypeError"
    /\ UNCHANGED <<config, patch, compact, results, loop, flushed, err, tty>>

NewlineFor ==
    /\ pc = "newline_for"
    /\ ForNext("newline_body", "returned", "except")
    /\ UNCHANGED <<config, patch, compact, results, i, first, out, flushed, err, tty>>

NewlineBody ==
    /\ pc = "newline_body"
    /\ LET p == fprint(out, doc, compact, "\n")
       IN  IF p.raised = "none"
           THEN out' = p.stream /\ pc' = "newline_for" /\ exc' = exc
           ELSE out' = out /\ pc' = "except" /\ exc' = p.raised
    /\ UNCHANGED <<config, patch, compact, results, loop, flushed, err, tty>>

(***************************************************************************)
(* ArrayOutput.print, ArrayOutput.__call__                                 *)
(***************************************************************************)
\* what ArrayOutput.print leaves flushed: super().print, then flush()
ArrayFlush(stream, n) == Len(stream)

\* mutant: a mapping is taken for a sequence too
IsCursorOrDict(v) == v.type \in {"cursor", "dict"}

\* isinstance(docs, r.Cursor)
IsCursor(v) == v.type = "cursor"

ArrayCall ==
    /\ pc = "render"
    /\ strategy = "Array"
    /\ LET p == fprint(out, results, compact, "\n")
       IN  IF IsCursor(results)
           THEN /\ first' = TRUE
                /\ out' = print(out, <<"[">>, " ", "")
                /\ flushed' = ArrayFlush(out', flushed)
                /\ pc' = "array_for"
                /\ exc' = exc
           ELSE /\ first' = first
                /\ flushed' = flushed
                /\ IF p.raised = "none"
                   THEN out' = p.stream /\ pc' = "returned" /\ exc' = exc
                   ELSE out' = out /\ pc' = "except" /\ exc' = p.raised
    /\ UNCHANGED <<config, patch, compact, results, pos, doc, i, err, tty>>

ArrayFor ==
    /\ pc = "array_for"
    /\ ForNext("array_body", "array_finally", "array_finally")
    /\ UNCHANGED <<config, patch, compact, results, i, first, out, flushed, err, tty>>

\* mutant: the separator is written before the first document too
ArraySeparatorAlways(stream, isFirst) == print(stream, <<",">>, "", "")

\* the separator the loop body writes before a document
ArraySeparator(stream, isFirst) == IF isFirst THEN stream ELSE print(stream, <<",">>, "", "")

ArrayBody ==
    /\ pc = "array_body"
    /\ first' = FALSE
    /\ LET sep == ArraySeparator(out, first)
           p == fprint(sep, doc, compact, "")
       IN  /\ out' = p.stream
           /\ flushed' = IF first THEN flushed ELSE ArrayFlush(sep, flushed)
           /\ IF p.raised = "none"
              THEN pc' = "array_for" /\ exc' = exc
              ELSE pc' = "array_finally" /\ exc' = p.raised
    /\ UNCHANGED <<config, patch, compact, results, pos, doc, i, err, tty>>

\* finally: self.print(']'), then the return or the pending exception
ArrayFinally ==
    /\ pc = "array_finally"
    /\ out' = print(out, <<"]">>, " ", "\n")
    /\ flushed' = ArrayFlush(out', flushed)
    /\ pc' = IF exc = "none" THEN "returned" ELSE "except"
    /\ UNCHANGED <<config, patch, compact, results, loop, err, tty, exc>>

Next ==
    \/ Make
    \/ Call
    \/ Run
    \/ Except
    \/ ColorCall
    \/ ColorFor
    \/ ColorBody
    \/ ColorKey
    \/ ColorTotal
    \/ Getch
    \/ GetchSetraw
    \/ GetchRead
    \/ GetchFinally
    \/ NewlineCall
    \/ NewlineFor
    \/ NewlineBody
    \/ ArrayCall
    \/ ArrayFor
    \/ ArrayBody
    \/ ArrayFinally

Spec == Init /\ [][Next]_vars

\* ---------------------------------------------------------------------------
\* binary_patch: the steps of _wrapper around Output.format.  In the actions
\* above a format call runs to completion inside one step; here each statement
\* of _wrapper is a step, and func may call a wrapped function again.

PatchDocs == {Dict, DictOf("datetime"), DictOf("object")}

Top == frames[Len(frames)]

SetTop(f) == [frames EXCEPT ![Len(frames)] = f]

\* orig = json.encoder.encode_basestring
WrapperEnter ==
    /\ Len(frames) < MaxDepth
    /\ IF frames = <<>> THEN TRUE ELSE Top.at = "try"
    /\ \E d \in PatchDocs, c \in BOOLEAN :
          frames' = Append(frames, [orig |-> json_encode_basestring, doc |-> d, c |-> c,
                                    at |-> "install", raised |-> 0])
    /\ UNCHANGED <<program, json_encode_basestring, last>>

\* json.encoder.encode_basestring = reql_encode_basestring
WrapperInstall ==
    /\ frames # <<>> /\ Top.at = "install"
    /\ json_encode_basestring' = "reql_encode_basestring"
    /\ frames' = SetTop([Top EXCEPT !.at = "try"])
    /\ UNCHANGED <<program, last>>

\* return func(*args, **kwargs): json.dumps returns or raises
WrapperFunc ==
    /\ frames # <<>> /\ Top.at = "try"
    /\ frames' = SetTop([Top EXCEPT !.at = "finally",
                                    !.raised = IF format(Top.doc, Top.c).raised # "none"
                                               THEN Len(frames) ELSE 0])
    /\ UNCHANGED <<program, json_encode_basestring, last>>

\* mutant: the restore is skipped when func raised (no finally)
RestoreOnReturn(orig, cur, raised) == IF raised > 0 THEN cur ELSE orig

\* finally: json.encoder.encode_basestring = orig
Restore(orig, cur, raised) == orig

\* the finally clause; an exception goes on into the calling frame
WrapperFinally ==
    /\ frames # <<>> /\ Top.at = "finally"
    /\ json_encode_basestring' = Restore(Top.orig, json_encode_basestring, Top.raised)
    /\ last' = Top.raised
    /\ LET rest == SubSeq(frames, 1, Len(frames) - 1)
       IN  frames' = IF rest # <<>> /\ Top.raised > 0
                     THEN [rest EXCEPT ![Len(rest)] =
                              [@ EXCEPT !.at = "finally", !.raised = Top.raised]]
                     ELSE rest
    /\ UNCHANGED program

NextPatch ==
    \/ WrapperEnter
    \/ WrapperInstall
    \/ WrapperFunc
    \/ WrapperFinally

SpecPatch == Init /\ [][NextPatch]_vars

(***************************************************************************)
(* Vocabulary of the properties.                                           *)
(***************************************************************************)
IsSoftError(v) == v.type = "dict" /\ v.fe
PromptLines == {Prompt(k) \o "\n" : k \in 1..MaxLen}
TotalLines == {"Total docs: " \o ToString(k) \o "\n" : k \in 0..MaxLen}
IsPrompt(s) == s \in PromptLines
IsTotal(s) == s \in TotalLines
RanLine == "Ran:\n " \o python_format(Query) \o "\n"
RunningLine == "Running: " \o python_format(Query) \o "\n"
ColorLoopPcs == {"color_for", "color_body", "getch", "color_key", "color_total"} \cup GetchPcs

\* the compact texts of the documents es, a "," between neighbours
Separated(es) ==
    [k \in 1..(IF es = <<>> THEN 0 ELSE 2 * Len(es) - 1) |->
        IF k % 2 = 1 THEN format(ElemDoc(es[(k + 1) \div 2]), TRUE).text ELSE ","]

\* C1: under every strategy a result with 'first_error' writes the message, tabs
\* as two spaces, to the error stream, nothing to the output stream, never calls
\* the pager, and the call returns normally.
C1_SoftErrorEveryStrategy ==
    (IsSoftError(results) /\ pc # "render") =>
        /\ pc = "returned"
        /\ exc = "none"
        /\ err = <<ReplaceTabs(results.msg) \o "\n">>
        /\ out = <<>>
        /\ getches = 0

\* C2: when a fault leaves the JSON-array loop, what has been written is "[",
\* the k documents emitted so far with "," between them, and "]".
C2_ArrayClosedAfterFault ==
    (strategy = "Array" /\ results.type = "cursor" /\ pc = "except") =>
        \E k \in 0..pos : out = <<"[">> \o Separated(SubSeq(results.elems, 1, k)) \o <<"]\n">>

\* C3: the JSON-array rendering of a cursor of N documents writes "[", the N
\* compact documents in order with a "," before each but the first, then "]\n".
C3_ArrayOfN ==
    /\ (strategy = "Array" /\ pc = "array_finally" /\ exc = "none") =>
          /\ pos = Len(results.elems)
          /\ out = <<"[">> \o Separated(results.elems)
    /\ (strategy = "Array" /\ results.type = "cursor" /\ pc = "returned"
            /\ pos = Len(results.elems)) =>
          /\ out = <<"[">> \o Separated(results.elems) \o <<"]\n">>
          /\ Len(out) = (IF pos = 0 THEN 0 ELSE 2 * pos - 1) + 2

C3_Witness ==
    /\ strategy = "Array" /\ results.type = "cursor" /\ pc = "returned"
    /\ Len(results.elems) = 3 /\ pos = 3 /\ err = <<>>
    /\ out = <<"[", "1", ",", "{\"b\":1,\"a\":2}", ",", "1", "]\n">>

\* C4: in JSON-array rendering every write, a document's included, has been
\* flushed before the next element is pulled from the cursor.
C4_FlushedBeforeNextPull ==
    (strategy = "Array" /\ pc = "array_for") => flushed = Len(out)

C6_QuitState ==
    exc = "SystemExit" =>
        /\ pc \in {"except", "exit"}
        /\ ch \in {"q", "Q"}
        /\ err = <<>>
        /\ pos = i
        /\ Len(out) = i + 2 * getches
        /\ out[Len(out)] = Prompt(i) \o "\n"
        /\ \A k \in 1..Len(out) : ~IsTotal(out[k]) /\ out[k] # RanLine

C6_QuitStep ==
    /\ (pc = "color_key" /\ ch \in {"q", "Q"}) =>
          pc' = "except" /\ exc' = "SystemExit" /\ out' = out /\ err' = err /\ pos' = pos
    /\ (pc = "color_key" /\ ch \notin {"q", "Q"}) =>
          pc' = "color_for" /\ exc' = "none" /\ out' = out
    /\ (pc = "except" /\ exc = "SystemExit") =>
          pc' = "exit" /\ exc' = "SystemExit" /\ out' = out /\ err' = err
    /\ pc = "exit" => FALSE

C6_QuitTerminates == []C6_QuitState /\ [][C6_QuitStep]_vars

C6_Witness ==
    /\ pc = "exit" /\ exc = "SystemExit" /\ ch = "Q"
    /\ pagesize = 2 /\ i = 2 /\ IterLen(results) = 4 /\ err = <<>>

\* C7: outside getch the terminal has the settings it had when getch was
\* entered, and is never in raw mode, however getch was left.
C7_TerminalRestored ==
    pc \notin GetchPcs =>
        /\ term # "raw"
        /\ old_settings # "unset" => term = old_settings

C7_Witness ==
    /\ pc = "except" /\ exc = "IOError" /\ getches = 1
    /\ old_settings = "cbreak" /\ term = "cbreak"

\* C8: make maps color and auto-on-a-TTY to Color, newline and auto-off-a-TTY to
\* NewlineDelimited, array to JSONArray, and fails for any other format.
C8_StrategySelection ==
    pc # "start" =>
        /\ format_mode = "color" => strategy = "Color"
        /\ (format_mode = "auto" /\ is_atty) => strategy = "Color"
        /\ format_mode = "newline" => strategy = "Newline"
        /\ (format_mode = "auto" /\ ~is_atty) => strategy = "Newline"
        /\ format_mode = "array" => strategy = "Array"
        /\ format_mode \notin {"color", "auto", "newline", "array"} =>
              strategy = "none" /\ pc = "exit" /\ exc = "Exception"

C8_Witness == format_mode = "auto" /\ is_atty /\ strategy = "Color" /\ pc = "returned"

C10_DirectOnlyBelowPageSize ==
    (strategy = "Color" /\ results.type = "list" /\ pc = "returned" /\ exc = "none"
        /\ primitive_array(results) /\ Len(results.elems) >= pagesize) =>
            /\ getches = Len(results.elems) \div pagesize
            /\ \E k \in 1..Len(out) : IsTotal(out[k])

\* C11: when the Color loop runs out of documents, "Total docs: <count>" is
\* written once, after the last document and the last pause, with count the
\* number of documents pulled and printed, and the query text follows it.
C11_TotalState ==
    /\ pc = "color_total" =>
          /\ i = IterLen(results) /\ pos = i
          /\ Len(out) = i + 2 * getches
          /\ getches = i \div pagesize
          /\ \A k \in 1..Len(out) : ~IsTotal(out[k])
    /\ \A k \in 1..Len(out) : IsTotal(out[k]) =>
          /\ k = Len(out) - 1
          /\ out[k] = "Total docs: " \o ToString(IterLen(results)) \o "\n"
          /\ out[Len(out)] = RanLine
          /\ Len(out) = IterLen(results) + 2 * getches + 2
          /\ pc = "returned" /\ exc = "none" /\ err = <<>>

C11_TotalStep ==
    pc = "color_total" =>
        /\ out' = out \o <<"Total docs: " \o ToString(i) \o "\n", RanLine>>
        /\ pc' = "returned"

C11_TotalDocsOnce == []C11_TotalState /\ [][C11_TotalStep]_vars

C11_Witness ==
    /\ strategy = "Color" /\ pc = "returned" /\ pagesize = 2
    /\ results = Cursor(<<"dict", "int">>) /\ getches = 1
    /\ out[Len(out) - 1] = "Total docs: 2\n"
    /\ out[Len(out) - 2] = Prompt(2) \o "\n"

C11_WitnessEmpty ==
    /\ strategy = "Color" /\ pc = "returned" /\ results = Cursor(<<>>)
    /\ out = <<"Total docs: 0\n", RanLine>>

\* C12: the newline-delimited rendering of a list or cursor of N documents
\* writes N lines, the compact text of each document in order and nothing else,
\* and never calls the pager.
C12_NewlineLines ==
    (strategy = "Newline" /\ results.type \in {"list", "cursor"} /\ pc # "render") =>
        /\ getches = 0
        /\ Len(out) <= pos
        /\ out = [k \in 1..Len(out) |-> format(ElemDoc(results.elems[k]), TRUE).text \o "\n"]
        /\ pc = "newline_for" => Len(out) = pos
        /\ pc = "newline_body" => Len(out) = pos - 1
        /\ (pc = "returned" /\ pos = Len(results.elems)) => Len(out) = Len(results.elems)

C12_Witness ==
    /\ strategy = "Newline" /\ pc = "returned" /\ err = <<>>
    /\ results = Cursor(<<"int", "dict", "int">>)
    /\ out = <<"1\n", "{\"b\":1,\"a\":2}\n", "1\n">>

\* C13: JSON-array rendering writes a single mapping as one compact line without
\* brackets, and a cursor holding exactly one mapping as "[", the mapping, "]".
C13_ArrayAsymmetry ==
    /\ (strategy = "Array" /\ results.type = "dict" /\ Encodable(results, TRUE)
            /\ pc # "render") =>
          /\ pc = "returned" /\ exc = "none"
          /\ out = <<format(results, TRUE).text \o "\n">>
          /\ results = Dict => out = <<"{\"b\":1,\"a\":2}\n">>
    /\ (strategy = "Array" /\ results = Cursor(<<"dict">>) /\ pc = "returned" /\ pos = 1) =>
          out = <<"[", "{\"b\":1,\"a\":2}", "]\n">>

C13_Witness ==
    /\ strategy = "Array" /\ results = Cursor(<<"dict">>) /\ pc = "returned"
    /\ err = <<>> /\ out = <<"[", "{\"b\":1,\"a\":2}", "]\n">>

C13_WitnessMapping ==
    /\ strategy = "Array" /\ results = Dict /\ pc = "returned"
    /\ out = <<"{\"b\":1,\"a\":2}\n">>

\* C14: a document holding a timestamp is encoded without a fault, the timestamp
\* as its ISO-8601 text, with compact true as with compact false.
C14_TimestampBothModes ==
    (results = DictOf("datetime") /\ pc # "render") =>
        /\ pc = "returned" /\ exc = "none"
        /\ out[1] \in { highlight("{\"t\":\"2015-01-01T00:00:00\"}", "json", style) \o "\n",
                        highlight("{\n    \"t\": \"2015-01-01T00:00:00\"\n}", "json", style) \o "\n" }

\* C15: a value that is no encodable document makes the encoding fail with an
\* error that reaches the caller, compact or not; no text is written in its place.
C15_UnencodableRaises ==
    /\ (doc.type = "object" /\ pc \notin {"color_body", "newline_body", "array_body"}) =>
          exc = "TypeError"
    /\ (results = DictOf("object") /\ pc # "render") =>
          exc = "TypeError" /\ out = <<>>

\* C16: the driver catches a database fault of the run or of the rendering, writes
\* its message once to the error stream and returns; in JSON-array mode "]" is
\* already written then; an interrupt is swallowed silently; a failed run is never
\* rendered.
C16_DriverState ==
    /\ Len(err) <= 1
    /\ (pc = "except" /\ exc \in {"RqlError", "KeyboardInterrupt"}) =>
          /\ err = <<>>
          /\ (strategy = "Array" /\ results.type = "cursor") =>
                out # <<>> /\ out[Len(out)] = "]\n"
    /\ (results = NoDoc /\ pc \in {"except", "returned", "exit"}) =>
          out = <<>> /\ getches = 0 /\ pos = 0

C16_DriverStep ==
    /\ (pc = "except" /\ exc = "RqlError") =>
          /\ err' = <<"RqlError: fault\n">>
          /\ out' = out /\ pc' = "returned" /\ exc' = "none"
    /\ (pc = "except" /\ exc = "KeyboardInterrupt") =>
          /\ err' = <<>>
          /\ out' = out /\ pc' = "returned" /\ exc' = "none"
    /\ (pc = "run" /\ results' = NoDoc) => pc' = "except" /\ out' = <<>>

C16_DriverCatches == []C16_DriverState /\ [][C16_DriverStep]_vars

C16_Witness ==
    /\ strategy = "Array" /\ pc = "returned" /\ results = Cursor(<<"int", "int">>)
    /\ pos = 1 /\ out = <<"[", "1", "]\n">> /\ err = <<"RqlError: fault\n">>

\* C17: on one Color instance only a call whose result is a list of primitives
\* is encoded compact; every other call is encoded non-compact, whatever the
\* calls before it rendered.
C17_CompactOnlyForPrimitiveLists ==
    /\ (strategy = "Color" /\ results # NoDoc /\ pc # "render" /\ ~primitive_array(results)) =>
          ~compact
    /\ (strategy = "Color" /\ results = Dict /\ pc = "returned") =>
          out[1] = highlight("{\n    \"a\": 2, \n    \"b\": 1\n}", "json", style) \o "\n"

\* C18: every strategy writes a scalar result (null, number, string) as one
\* encoded value and returns; none iterates it or raises.
C18_ScalarResultOneValue ==
    (results.type \in {"int", "null", "str"} /\ pc # "render") =>
        /\ pc = "returned" /\ exc = "none"
        /\ out # <<>>
        /\ out[1] = SelfFormat(results, compact).text \o "\n"
        /\ Len(out) = IF strategy = "Color" THEN 2 ELSE 1

\* C19: reql_encode_basestring is the global routine only while a format call
\* runs; when a call ends, by return or by exception, the global routine is the
\* one found at its entry, so with no call running it is the original.
C19_PatchState ==
    /\ frames = <<>> => json_encode_basestring = "real_encoder"
    /\ \A k \in 1..Len(frames) :
          frames[k].orig = IF k = 1 THEN "real_encoder" ELSE "reql_encode_basestring"
    /\ (frames # <<>> /\ Top.at # "install") =>
          json_encode_basestring = "reql_encode_basestring"

C19_PatchStep ==
    Len(frames') < Len(frames) =>
        json_encode_basestring' = IF Len(frames) = 1 THEN "real_encoder"
                             ELSE "reql_encode_basestring"

C19_PatchRestored == []C19_PatchState /\ [][C19_PatchStep]_vars

C19_Witness ==
    /\ frames = <<>> /\ last = 2 /\ json_encode_basestring = "real_encoder"

C19_WitnessReturn ==
    /\ Len(frames) = 1 /\ Top.at = "try" /\ last = 0
    /\ json_encode_basestring = "reql_encode_basestring"

====
